---- MODULE Spec2Model ----
(***************************************************************************)
(* Provider plugin cache service (terraform/cache/services/provider.go).   *)
(*                                                                         *)
(* One ProviderService process is modelled in full: the callers of         *)
(* CacheProvider / GetProviderCache / WaitForCacheReady, the dispatch      *)
(* loop RunCacheWorker, the errgroup of warm-up goroutines and the shared  *)
(* cache directory.  A second invocation of the tool that shares the base  *)
(* directory is represented by one more warm-up task (XTask) running the   *)
(* same warmUp / rollback / removeArchive code on the same disk.           *)
(***************************************************************************)
EXTENDS Integers, Sequences, FiniteSets, TLC

\* ---------------------------------------------------------------- bounds
\* Provider identities and calling goroutines of the modelled run.
Providers == {"p1", "p2"}
Clients == {"c1", "c2"}
\* ProviderCache objects the service may construct during the run.
MaxCaches == 3
\* Retry budget of the lock acquisition (maxRetriesLockfile, scaled down).
MaxRetries == 1
\* The provider the second process warms up.
XTarget == "p1"

\* The workloads checked.  A caller is a "proxy" (it calls CacheProvider,
\* GetProviderCache and WaitForCacheReady), a "cache" caller (CacheProvider
\* only) or "off"; requested are the identities the callers ask for; second
\* says whether another process warms XTarget up in the same directory.
Workloads == {
    [name |-> "solo", requested |-> {XTarget}, second |-> FALSE,
     role |-> [c \in Clients |-> IF c = "c1" THEN "proxy" ELSE "off"]],
    [name |-> "shared", requested |-> {XTarget}, second |-> TRUE,
     role |-> [c \in Clients |-> IF c = "c1" THEN "cache" ELSE "off"]],
    [name |-> "mixed", requested |-> {XTarget}, second |-> FALSE,
     role |-> [c \in Clients |-> IF c = "c1" THEN "proxy" ELSE "cache"]],
    [name |-> "pair", requested |-> Providers, second |-> FALSE,
     role |-> [c \in Clients |-> "cache"]] }

CacheIds == 1..MaxCaches
\* The warm-up task of the second process sharing the base directory.
XTask == MaxCaches + 1
Tasks == CacheIds \cup {XTask}
\* nil *ProviderCache
NoCache == 0
NoOne == "none"

VARIABLES
    workload,           \* the workload of this run (never changes)
    \* ---- ProviderService (provider.go:149-161)
    baseCacheDir,       \* TRUE iff the base directory is specified (non-empty)
    svcNeedCacheArchive,\* service.needCacheArchive
    providerCaches,     \* sequence of cache ids, in append order
    cacheMu,            \* client holding cacheMu.Lock, or NoOne
    chClosed,           \* providerCacheCh has been closed
    \* ---- ProviderCache objects and their warm-up goroutines
    nCaches,            \* number of ProviderCache objects constructed
    cprov,              \* cache id -> provider identity
    needCacheArchive,   \* task -> cache.needCacheArchive
    ready,              \* task -> cache.ready
    tpc,                \* task -> position of its goroutine
    alreadyCached,      \* task -> local alreadyCached of warmUp
    calls,              \* task -> the collaborator calls warmUp has made
    retries,            \* task -> failed lock attempts so far
    terr,               \* task -> error returned by warmUp ("none" if nil)
    \* ---- RunCacheWorker and its errgroup
    wpc,                \* position of RunCacheWorker
    parentCancel,       \* the caller's context has been cancelled
    groupErr,           \* errgroup's first error: <<cache id, kind>> or <<>>
    merr,               \* multierror being aggregated (set of errors)
    wsnap,              \* the slice ranged over by the cleanup loop
    widx,               \* next index of the cleanup loop
    crashed,            \* the process died on a send on the closed channel
    \* ---- callers
    cpc,                \* client -> position
    ccache,             \* client -> ProviderCache constructed by CacheProvider
    cres,               \* client -> <<p, cache>> of its last GetProviderCache(p)
    wseen,              \* client -> caches tracked when it called WaitForCacheReady
    repeated,           \* identities for which CacheProvider returned at line 183
    \* ---- the shared cache directory
    url,                \* provider -> DownloadURL is set
    hostPluginDir,      \* provider -> terraformPluginPlatformDir exists
    providerDir,        \* provider -> providerDir exists
    platformDir,        \* provider -> "absent","symlink","empty","partial","full"
    archive,            \* provider -> archive file exists
    lockHolder          \* provider -> task holding the lockfile, or NoCache

svcVars == <<baseCacheDir, svcNeedCacheArchive, providerCaches, cacheMu, chClosed>>
cacheVars == <<nCaches, cprov, needCacheArchive, ready, tpc, alreadyCached, calls, retries, terr>>
workerVars == <<wpc, parentCancel, groupErr, merr, wsnap, widx, crashed>>
clientVars == <<cpc, ccache, cres, wseen, repeated>>
diskVars == <<url, hostPluginDir, providerDir, platformDir, archive, lockHolder>>
vars == <<workload, svcVars, cacheVars, workerVars, clientVars, diskVars>>

\* ------------------------------------------------------------- helpers
\* The provider a task works on.
ProvOf(t) == IF t = XTask THEN XTarget ELSE cprov[t]

\* Provider.Match: all identity fields equal (the download URL is excluded).
Match(id, target) == cprov[id] = target

\* ProviderCaches.Find: linear scan, first match or nil.
RECURSIVE FindFrom(_, _, _)
FindFrom(caches, target, i) ==
    IF i > Len(caches) THEN NoCache
    ELSE IF Match(caches[i], target) THEN caches[i]
    ELSE FindFrom(caches, target, i + 1)

\* A scan that starts one entry too late.
FindSkipsFirst(caches, target) == FindFrom(caches, target, 2)

\* A scan that never matches.
FindNever(caches, target) == NoCache

Find(caches, target) == FindFrom(caches, target, 1)

\* util.FileExists(cache.ArchiveFilename()): "" when DownloadURL is nil.
ArchiveFileExists(p) == url[p] /\ archive[p]

\* util.FileExists(platformDir)
PlatformDirExists(p) == platformDir[p] # "absent"

\* A removal that always fails.
OsRemoveFails(st) == st

\* os.Remove(path): removes a file, a symlink or an empty directory only.
OsRemove(st) == IF st \in {"symlink", "empty"} THEN "absent" ELSE st

\* Tasks of the modelled service that hold a shared claim on cacheReadyMu.
InWarmUp == {"acquire", "check", "fetch", "decompress", "returned"}
ReadyReaders == {t \in CacheIds : tpc[t] \in InWarmUp}

\* ctx of the errgroup: done when the parent is cancelled or a task failed.
CtxDone == parentCancel \/ groupErr # <<>>

\* A live goroutine of the modelled process may take a step.
Alive == ~crashed
TaskAlive(t) == t = XTask \/ ~crashed

\* ---------------------------------------------------------------- Init
\* NewProviderService (provider.go:163-169) and the state of the shared
\* directory when the run starts: a platformDir left by an earlier run is
\* completely unpacked, an archive may have been retained.
\* The cache directory as a run may find it.  An identity nobody asks for
\* has no files; with two callers, two identities or two processes the
\* directory starts without platformDir and archive, and every identity has
\* its DownloadURL.
EmptyFor(p) == ~hostPluginDir[p] /\ platformDir[p] = "absent" /\ ~archive[p]
InitialDirectory ==
    /\ \A p \in Providers \ workload.requested : url[p] /\ EmptyFor(p)
    /\ workload.name \in {"mixed", "pair"} =>
           \A p \in Providers : url[p] /\ EmptyFor(p)
    /\ workload.name = "shared" =>
           \A p \in Providers : url[p] /\ platformDir[p] = "absent" /\ ~archive[p]
    /\ ~baseCacheDir => workload.name = "solo" /\ \A p \in Providers : url[p] /\ EmptyFor(p)

Init ==
    /\ workload \in Workloads
    /\ baseCacheDir \in BOOLEAN
    /\ svcNeedCacheArchive \in BOOLEAN
    /\ providerCaches = <<>>
    /\ cacheMu = NoOne
    /\ chClosed = FALSE
    /\ nCaches = 0
    /\ cprov = [i \in CacheIds |-> NoOne]
    /\ needCacheArchive = [t \in Tasks |-> svcNeedCacheArchive]
    /\ ready = [t \in Tasks |-> FALSE]
    /\ tpc = [t \in Tasks |-> "none"]
    /\ alreadyCached = [t \in Tasks |-> FALSE]
    /\ calls = [t \in Tasks |-> {}]
    /\ retries = [t \in Tasks |-> 0]
    /\ terr = [t \in Tasks |-> "none"]
    /\ wpc = "init"
    /\ parentCancel = FALSE
    /\ groupErr = <<>>
    /\ merr = {}
    /\ wsnap = <<>>
    /\ widx = 1
    /\ crashed = FALSE
    /\ cpc = [c \in Clients |-> "idle"]
    /\ ccache = [c \in Clients |-> NoCache]
    /\ cres = [c \in Clients |-> <<>>]
    /\ wseen = [c \in Clients |-> {}]
    /\ repeated = {}
    /\ url \in [Providers -> BOOLEAN]
    /\ hostPluginDir \in [Providers -> BOOLEAN]
    /\ providerDir = [p \in Providers |-> FALSE]
    /\ platformDir \in [Providers -> {"absent", "full"}]
    /\ archive \in [Providers -> BOOLEAN]
    /\ lockHolder = [p \in Providers |-> NoCache]
    /\ InitialDirectory

\* ------------------------------------------------------------- callers
\* CacheProvider, lines 179-190, for an identity that is not tracked: under
\* cacheMu the ProviderCache is constructed and the caller blocks on the send.
\* For a tracked identity (lines 182-184) the call unlocks and returns.
CacheProvider(c, p) ==
    /\ Alive /\ cpc[c] = "idle" /\ cacheMu = NoOne
    /\ workload.role[c] # "off" /\ p \in workload.requested
    /\ IF Find(providerCaches, p) # NoCache
       THEN /\ repeated' = repeated \cup {p}
            /\ UNCHANGED <<cpc, ccache, cacheMu, nCaches, cprov, needCacheArchive>>
       ELSE /\ nCaches < MaxCaches
            /\ nCaches' = nCaches + 1
            /\ cprov' = [cprov EXCEPT ![nCaches + 1] = p]
            /\ needCacheArchive' =
                   [needCacheArchive EXCEPT ![nCaches + 1] = svcNeedCacheArchive]
            /\ ccache' = [ccache EXCEPT ![c] = nCaches + 1]
            /\ cacheMu' = c
            /\ cpc' = [cpc EXCEPT ![c] = "cp_send"]
            /\ UNCHANGED repeated
    /\ UNCHANGED <<workload, cres, wseen, baseCacheDir, svcNeedCacheArchive, providerCaches,
                   chClosed, ready, tpc, alreadyCached, calls, retries, terr,
                   workerVars, diskVars>>

\* A send that does not wait for the receiver (a buffered channel).
CacheProviderAppendWithoutReceive(c) ==
    /\ Alive /\ cpc[c] \in {"cp_send", "cp_append"}
    /\ providerCaches' = Append(providerCaches, ccache[c])
    /\ cacheMu' = NoOne
    /\ cpc' = [cpc EXCEPT ![c] = "idle"]
    /\ ccache' = [ccache EXCEPT ![c] = NoCache]
    /\ UNCHANGED <<workload, cres, wseen, repeated, baseCacheDir,
                   svcNeedCacheArchive, chClosed, cacheVars, workerVars, diskVars>>

\* A CacheProvider that puts the new entry in front of the collection.
CacheProviderPrepends(c) ==
    /\ Alive /\ cpc[c] = "cp_append"
    /\ providerCaches' = <<ccache[c]>> \o providerCaches
    /\ cacheMu' = NoOne
    /\ cpc' = [cpc EXCEPT ![c] = "idle"]
    /\ ccache' = [ccache EXCEPT ![c] = NoCache]
    /\ UNCHANGED <<workload, cres, wseen, repeated, baseCacheDir,
                   svcNeedCacheArchive, chClosed, cacheVars, workerVars, diskVars>>

\* CacheProvider, line 193 and the deferred Unlock: append and return.
CacheProviderAppend(c) ==
    /\ Alive /\ cpc[c] = "cp_append"
    /\ providerCaches' = Append(providerCaches, ccache[c])
    /\ cacheMu' = NoOne
    /\ cpc' = [cpc EXCEPT ![c] = "idle"]
    /\ ccache' = [ccache EXCEPT ![c] = NoCache]
    /\ UNCHANGED <<workload, cres, wseen, repeated, baseCacheDir,
                   svcNeedCacheArchive, chClosed, cacheVars, workerVars, diskVars>>

\* Release of the lockfiles of a process that dies (flock is per process).
ReleasedOnCrash == [p \in Providers |->
    IF lockHolder[p] \in CacheIds THEN NoCache ELSE lockHolder[p]]

\* CacheProvider, line 192 on a closed channel: the send panics and the
\* process dies with all its goroutines.
CacheProviderPanic(c) ==
    /\ Alive /\ cpc[c] = "cp_send" /\ chClosed
    /\ crashed' = TRUE
    /\ lockHolder' = ReleasedOnCrash
    /\ UNCHANGED <<workload, svcVars, cacheVars, clientVars, wpc, parentCancel, groupErr,
                   merr, wsnap, widx, url, hostPluginDir, providerDir,
                   platformDir, archive>>

\* A lookup that does not look at the ready flag.
GetProviderCacheIgnoresReady(p) ==
    LET cache == Find(providerCaches, p) IN
    IF cache # NoCache /\ ArchiveFileExists(p) THEN cache ELSE NoCache

\* The value GetProviderCache returns (line 201).
GetProviderCacheResult(p) ==
    LET cache == Find(providerCaches, p) IN
    IF cache # NoCache /\ ready[cache] /\ ArchiveFileExists(p)
    THEN cache ELSE NoCache

\* GetProviderCache, lines 198-204, under the read lock.
GetProviderCache(c, p) ==
    /\ Alive /\ cpc[c] = "idle" /\ cacheMu = NoOne
    /\ workload.role[c] = "proxy" /\ p \in workload.requested
    /\ cres' = [cres EXCEPT ![c] = <<p, GetProviderCacheResult(p)>>]
    /\ UNCHANGED <<workload, cpc, ccache, wseen, repeated, svcVars, cacheVars,
                   workerVars, diskVars>>

\* A caller invokes WaitForCacheReady: waiting for cacheReadyMu.Lock, which
\* keeps later RLock calls out.
CallWaitForCacheReady(c) ==
    /\ Alive /\ cpc[c] = "idle" /\ workload.role[c] = "proxy"
    /\ cpc' = [cpc EXCEPT ![c] = "w_lock"]
    /\ wseen' = [wseen EXCEPT ![c] = {providerCaches[i] : i \in DOMAIN providerCaches}]
    /\ UNCHANGED <<workload, ccache, cres, repeated, svcVars, cacheVars, workerVars,
                   diskVars>>

\* A WaitForCacheReady that returns without taking the lock.
WaitForCacheReadyWithoutLock(c) ==
    /\ Alive /\ cpc[c] = "w_lock"
    /\ cpc' = [cpc EXCEPT ![c] = "idle"]
    /\ wseen' = [wseen EXCEPT ![c] = {}]
    /\ UNCHANGED <<workload, ccache, cres, repeated, svcVars, cacheVars, workerVars,
                   diskVars>>

\* WaitForCacheReady, lines 173-174: the exclusive lock is granted once no
\* shared claim is held; the deferred Unlock follows at once.
WaitForCacheReady(c) ==
    /\ Alive /\ cpc[c] = "w_lock" /\ ReadyReaders = {}
    /\ cpc' = [cpc EXCEPT ![c] = "idle"]
    /\ wseen' = [wseen EXCEPT ![c] = {}]
    /\ UNCHANGED <<workload, ccache, cres, repeated, svcVars, cacheVars, workerVars,
                   diskVars>>

\* ------------------------------------------------- warm-up goroutines
\* A warmUp whose return paths leave the lockfile locked.
WarmUpReturnKeepsLock(t, err, locked) ==
    /\ terr' = [terr EXCEPT ![t] = err]
    /\ tpc' = [tpc EXCEPT ![t] = "returned"]
    /\ UNCHANGED lockHolder

\* warmUp returns err: the deferred lockfile.Unlock (line 94) runs when the
\* lock was acquired, and the task body (line 232) gets the error.
WarmUpReturn(t, err, locked) ==
    /\ terr' = [terr EXCEPT ![t] = err]
    /\ tpc' = [tpc EXCEPT ![t] = "returned"]
    /\ lockHolder' = IF locked THEN [lockHolder EXCEPT ![ProvOf(t)] = NoCache]
                     ELSE lockHolder

\* RunCacheWorker, line 229, and warmUp, lines 86-88: the task takes its
\* shared claim on the readiness gate (a pending WaitForCacheReady keeps it
\* out, sync.RWMutex) and creates providerDir; an I/O error returns.
TaskRLock(t) ==
    /\ TaskAlive(t) /\ tpc[t] = "spawned"
    /\ t \in CacheIds => \A c \in Clients : cpc[c] # "w_lock"
    /\ \/ /\ providerDir' = [providerDir EXCEPT ![ProvOf(t)] = TRUE]
          /\ tpc' = [tpc EXCEPT ![t] = "acquire"]
          /\ UNCHANGED <<terr, lockHolder>>
       \/ /\ WarmUpReturn(t, "mkdirall", FALSE)
          /\ UNCHANGED providerDir
    /\ UNCHANGED <<workload, svcVars, nCaches, cprov, needCacheArchive, ready, alreadyCached, calls,
                   retries, workerVars, clientVars, url, hostPluginDir,
                   platformDir, archive>>

\* util.AcquireLockfile, one attempt: the lock is taken when free; a failed
\* attempt is retried until the budget is spent, then the error returns.
AcquireLockfile(t) ==
    LET p == ProvOf(t) IN
    IF lockHolder[p] = NoCache
    THEN /\ lockHolder' = [lockHolder EXCEPT ![p] = t]
         /\ tpc' = [tpc EXCEPT ![t] = "check"]
         /\ UNCHANGED <<retries, terr>>
    ELSE IF retries[t] < MaxRetries
    THEN /\ retries' = [retries EXCEPT ![t] = retries[t] + 1]
         /\ UNCHANGED <<lockHolder, tpc, terr>>
    ELSE /\ WarmUpReturn(t, "lock", FALSE)
         /\ UNCHANGED retries

\* A warmUp that enters its protected section without the lockfile.
WarmUpSkipsLock(t) ==
    /\ TaskAlive(t) /\ tpc[t] = "acquire"
    /\ tpc' = [tpc EXCEPT ![t] = "check"]
    /\ UNCHANGED <<workload, svcVars, nCaches, cprov, needCacheArchive, ready, alreadyCached, calls,
                   retries, terr, workerVars, clientVars, diskVars>>

\* A warmUp that waits for the lockfile without a retry budget.
WarmUpAcquireWaitsForLock(t) ==
    /\ TaskAlive(t) /\ tpc[t] = "acquire"
    /\ lockHolder[ProvOf(t)] = NoCache
    /\ lockHolder' = [lockHolder EXCEPT ![ProvOf(t)] = t]
    /\ tpc' = [tpc EXCEPT ![t] = "check"]
    /\ UNCHANGED <<workload, svcVars, nCaches, cprov, needCacheArchive, ready, alreadyCached, calls,
                   retries, terr, workerVars, clientVars, url, hostPluginDir, providerDir,
                   platformDir, archive>>

\* warmUp, lines 90-93.
WarmUpAcquire(t) ==
    /\ TaskAlive(t) /\ tpc[t] = "acquire"
    /\ AcquireLockfile(t)
    /\ UNCHANGED <<workload, svcVars, nCaches, cprov, needCacheArchive, ready, alreadyCached, calls,
                   workerVars, clientVars, url, hostPluginDir, providerDir,
                   platformDir, archive>>

\* A download path that asks for the archive only when the service retains it.
ArchiveNeededOnlyIfRetained(t) == needCacheArchive[t]

\* warmUp, line 107: the download path sets cache.needCacheArchive.
DownloadNeedsArchive(t) == TRUE

\* warmUp, lines 96-111, under the lockfile: reuse by symlink, or create
\* platformDir and require the archive, or take an existing platformDir as
\* already cached.  os.Symlink and os.MkdirAll may fail.
WarmUpCheck(t) ==
    LET p == ProvOf(t) IN
    /\ TaskAlive(t) /\ tpc[t] = "check"
    /\ IF ~PlatformDirExists(p)
       THEN IF hostPluginDir[p]
            THEN \/ /\ platformDir' = [platformDir EXCEPT ![p] = "symlink"]
                    /\ calls' = [calls EXCEPT ![t] = calls[t] \cup {"symlink"}]
                    /\ alreadyCached' = [alreadyCached EXCEPT ![t] = TRUE]
                    /\ tpc' = [tpc EXCEPT ![t] = "fetch"]
                    /\ UNCHANGED <<needCacheArchive, terr, lockHolder>>
                 \/ /\ WarmUpReturn(t, "symlink", TRUE)
                    /\ calls' = [calls EXCEPT ![t] = calls[t] \cup {"symlink"}]
                    /\ UNCHANGED <<platformDir, alreadyCached, needCacheArchive>>
            ELSE \/ /\ platformDir' = [platformDir EXCEPT ![p] = "empty"]
                    /\ calls' = [calls EXCEPT ![t] = calls[t] \cup {"mkdir"}]
                    /\ needCacheArchive' =
                           [needCacheArchive EXCEPT ![t] = DownloadNeedsArchive(t)]
                    /\ tpc' = [tpc EXCEPT ![t] = "fetch"]
                    /\ UNCHANGED <<alreadyCached, terr, lockHolder>>
                 \/ /\ WarmUpReturn(t, "mkdir", TRUE)
                    /\ calls' = [calls EXCEPT ![t] = calls[t] \cup {"mkdir"}]
                    /\ UNCHANGED <<platformDir, alreadyCached, needCacheArchive>>
       ELSE /\ alreadyCached' = [alreadyCached EXCEPT ![t] = TRUE]
            /\ tpc' = [tpc EXCEPT ![t] = "fetch"]
            /\ UNCHANGED <<platformDir, calls, needCacheArchive, terr, lockHolder>>
    /\ UNCHANGED <<workload, svcVars, nCaches, cprov, ready, retries, workerVars, clientVars,
                   url, hostPluginDir, providerDir, archive>>

\* A fetch condition that ignores the unit's needCacheArchive flag.
FetchWheneverArchiveMissing(t) == ~ArchiveFileExists(ProvOf(t))

\* warmUp, line 113: whether the archive has to be fetched.
FetchRequired(t) == needCacheArchive[t] /\ ~ArchiveFileExists(ProvOf(t))

\* A warmUp that decompresses whether or not the unit is already cached.
AfterFetchAlwaysDecompress(t) ==
    /\ tpc' = [tpc EXCEPT ![t] = "decompress"]
    /\ UNCHANGED <<terr, lockHolder>>

\* warmUp, lines 124 and 131: an already cached unit skips the decompression
\* and returns nil.
AfterFetch(t) ==
    IF alreadyCached[t]
    THEN WarmUpReturn(t, "none", TRUE)
    ELSE /\ tpc' = [tpc EXCEPT ![t] = "decompress"]
         /\ UNCHANGED <<terr, lockHolder>>

\* warmUp, lines 113-122: without a DownloadURL the unit fails; otherwise
\* util.FetchFile writes the archive or fails.
WarmUpFetch(t) ==
    LET p == ProvOf(t) IN
    /\ TaskAlive(t) /\ tpc[t] = "fetch"
    /\ IF FetchRequired(t)
       THEN IF ~url[p]
            THEN /\ WarmUpReturn(t, "nourl", TRUE)
                 /\ UNCHANGED <<archive, calls>>
            ELSE /\ calls' = [calls EXCEPT ![t] = calls[t] \cup {"fetch"}]
                 /\ \/ /\ archive' = [archive EXCEPT ![p] = TRUE]
                       /\ AfterFetch(t)
                    \/ /\ WarmUpReturn(t, "fetch", TRUE)
                       /\ UNCHANGED archive
       ELSE /\ AfterFetch(t)
            /\ UNCHANGED <<archive, calls>>
    /\ UNCHANGED <<workload, svcVars, nCaches, cprov, needCacheArchive, ready,
                   alreadyCached, retries, workerVars, clientVars, url,
                   hostPluginDir, providerDir, platformDir>>

\* warmUp, lines 125-131: unzip.Decompress unpacks the archive into
\* platformDir (creating it when missing); a failure may leave some files.
WarmUpDecompress(t) ==
    LET p == ProvOf(t) IN
    /\ TaskAlive(t) /\ tpc[t] = "decompress"
    /\ calls' = [calls EXCEPT ![t] = calls[t] \cup {"decompress"}]
    /\ \/ /\ ArchiveFileExists(p)
          /\ platformDir' = [platformDir EXCEPT ![p] = "full"]
          /\ WarmUpReturn(t, "none", TRUE)
       \/ /\ \E st \in {platformDir[p], "partial"} :
                 platformDir' = [platformDir EXCEPT ![p] = st]
          /\ WarmUpReturn(t, "decompress", TRUE)
    /\ UNCHANGED <<workload, svcVars, nCaches, cprov, needCacheArchive, ready,
                   alreadyCached, retries, workerVars, clientVars, url,
                   hostPluginDir, providerDir, archive>>

\* errgroup.Group: the first non-nil error is kept (and cancels the group's
\* context); later ones are dropped.
GroupRecord(t) ==
    IF t \in CacheIds /\ terr[t] # "none" /\ groupErr = <<>>
    THEN <<t, terr[t]>> ELSE groupErr

\* A task body that marks the unit ready whatever warmUp returned.
TaskFinishAlwaysReady(t) ==
    /\ TaskAlive(t) /\ tpc[t] = "returned"
    /\ ready' = [ready EXCEPT ![t] = TRUE]
    /\ groupErr' = GroupRecord(t)
    /\ tpc' = [tpc EXCEPT ![t] = "done"]
    /\ UNCHANGED <<workload, svcVars, nCaches, cprov, needCacheArchive, alreadyCached, calls,
                   retries, terr, wpc, parentCancel, merr, wsnap, widx, crashed,
                   clientVars, diskVars>>

\* RunCacheWorker, lines 232-240 with the deferred RUnlock: on an error
\* os.Remove(platformDir) (its result ignored) and the error goes to the
\* errgroup; otherwise cache.ready = true.
TaskFinish(t) ==
    LET p == ProvOf(t) IN
    /\ TaskAlive(t) /\ tpc[t] = "returned"
    /\ IF terr[t] # "none"
       THEN /\ platformDir' = [platformDir EXCEPT ![p] = OsRemove(platformDir[p])]
            /\ UNCHANGED ready
       ELSE /\ ready' = [ready EXCEPT ![t] = TRUE]
            /\ UNCHANGED platformDir
    /\ groupErr' = GroupRecord(t)
    /\ tpc' = [tpc EXCEPT ![t] = "done"]
    /\ UNCHANGED <<workload, svcVars, nCaches, cprov, needCacheArchive, alreadyCached, calls,
                   retries, terr, wpc, parentCancel, merr, wsnap, widx, crashed,
                   clientVars, url, hostPluginDir, providerDir, archive,
                   lockHolder>>

\* ------------------------------------------------------ RunCacheWorker
\* A RunCacheWorker that enters its loop without looking at baseCacheDir.
WorkerStartIgnoresDir ==
    /\ Alive /\ wpc = "init"
    /\ wpc' = "loop"
    /\ UNCHANGED <<workload, svcVars, cacheVars, parentCancel, groupErr, merr, wsnap, widx,
                   crashed, clientVars, diskVars>>

\* RunCacheWorker, lines 209-220: configuration errors return at once.
WorkerStart ==
    /\ Alive /\ wpc = "init"
    /\ IF ~baseCacheDir
       THEN /\ merr' = {<<NoCache, "nodir">>}
            /\ wpc' = "returned"
       ELSE \/ /\ wpc' = "loop"
               /\ UNCHANGED merr
            \/ /\ merr' = {<<NoCache, "configdir">>}
               /\ wpc' = "returned"
    /\ UNCHANGED <<workload, svcVars, cacheVars, parentCancel, groupErr, wsnap, widx, crashed,
                   clientVars, diskVars>>

\* RunCacheWorker, lines 223-241: receive a ProviderCache from the channel
\* (which completes the sender's send) and start its task with errGroup.Go.
WorkerReceive(c) ==
    /\ Alive /\ wpc = "loop" /\ cpc[c] = "cp_send" /\ ~chClosed
    /\ tpc' = [tpc EXCEPT ![ccache[c]] = "spawned"]
    /\ cpc' = [cpc EXCEPT ![c] = "cp_append"]
    /\ UNCHANGED <<workload, svcVars, nCaches, cprov, needCacheArchive, ready, alreadyCached, calls,
                   retries, terr, workerVars, ccache, cres, wseen, repeated,
                   diskVars>>

\* A loop that watches the errgroup only, not the caller's context.
WorkerShutdownOnlyOnFailure ==
    /\ Alive /\ wpc = "loop" /\ groupErr # <<>>
    /\ chClosed' = TRUE
    /\ wpc' = "wait"
    /\ UNCHANGED <<workload, baseCacheDir, svcNeedCacheArchive, providerCaches, cacheMu,
                   cacheVars, parentCancel, groupErr, merr, wsnap, widx, crashed,
                   clientVars, diskVars>>

\* RunCacheWorker, lines 242-243: the context is done, close the channel.
WorkerShutdown ==
    /\ Alive /\ wpc = "loop" /\ CtxDone
    /\ chClosed' = TRUE
    /\ wpc' = "wait"
    /\ UNCHANGED <<workload, baseCacheDir, svcNeedCacheArchive, providerCaches, cacheMu,
                   cacheVars, parentCancel, groupErr, merr, wsnap, widx, crashed,
                   clientVars, diskVars>>

\* errgroup.Group.Wait: the group's first error, once every task returned.
GroupWait == IF groupErr = <<>> THEN {} ELSE {groupErr}

\* A shutdown that does not wait for the group.
WorkerWaitsForNothing ==
    /\ Alive /\ wpc = "wait"
    /\ merr' = GroupWait
    /\ wsnap' = providerCaches
    /\ widx' = 1
    /\ wpc' = "cleanup"
    /\ UNCHANGED <<workload, svcVars, cacheVars, parentCancel, groupErr, crashed, clientVars,
                   diskVars>>

\* RunCacheWorker, lines 245-251: errGroup.Wait, then the range expression of
\* the cleanup loop is evaluated.
WorkerWait ==
    /\ Alive /\ wpc = "wait"
    /\ \A t \in CacheIds : tpc[t] \in {"none", "done"}
    /\ merr' = GroupWait
    /\ wsnap' = providerCaches
    /\ widx' = 1
    /\ wpc' = "cleanup"
    /\ UNCHANGED <<workload, svcVars, cacheVars, parentCancel, groupErr, crashed, clientVars,
                   diskVars>>

\* A removeArchive that does not look at the unit's flag.
RemoveArchiveAlways(t) == ArchiveFileExists(ProvOf(t))

\* removeArchive, line 139: whether os.Remove is called on the archive.
RemoveArchiveApplies(t) == needCacheArchive[t] /\ ArchiveFileExists(ProvOf(t))

\* RunCacheWorker, lines 251-255, one iteration: removeArchive (lines
\* 134-147); os.Remove may fail and the error is appended.
WorkerCleanup ==
    /\ Alive /\ wpc = "cleanup" /\ widx <= Len(wsnap)
    /\ LET t == wsnap[widx] IN
       IF RemoveArchiveApplies(t)
       THEN \/ /\ archive' = [archive EXCEPT ![ProvOf(t)] = FALSE]
               /\ UNCHANGED merr
            \/ /\ merr' = merr \cup {<<t, "remove">>}
               /\ UNCHANGED archive
       ELSE UNCHANGED <<archive, merr>>
    /\ widx' = widx + 1
    /\ UNCHANGED <<workload, svcVars, cacheVars, wpc, parentCancel, groupErr, wsnap, crashed,
                   clientVars, url, hostPluginDir, providerDir, platformDir,
                   lockHolder>>

\* RunCacheWorker, line 257: return merr.ErrorOrNil().
WorkerReturn ==
    /\ Alive /\ wpc = "cleanup" /\ widx > Len(wsnap)
    /\ wpc' = "returned"
    /\ UNCHANGED <<workload, svcVars, cacheVars, parentCancel, groupErr, merr, wsnap, widx,
                   crashed, clientVars, diskVars>>

\* The caller of RunCacheWorker cancels the run's context.
CancelRun ==
    /\ Alive /\ ~parentCancel
    /\ parentCancel' = TRUE
    /\ UNCHANGED <<workload, svcVars, cacheVars, wpc, groupErr, merr, wsnap, widx, crashed,
                   clientVars, diskVars>>

\* ------------------------------------------------- the second process
\* Its dispatch loop starts the warm-up of XTarget (lines 223-228).
XSpawn ==
    /\ workload.second /\ tpc[XTask] = "none"
    /\ tpc' = [tpc EXCEPT ![XTask] = "spawned"]
    /\ UNCHANGED <<workload, svcVars, nCaches, cprov, needCacheArchive, ready, alreadyCached, calls,
                   retries, terr, workerVars, clientVars, diskVars>>

\* Its shutdown cleanup (lines 251-255) once its task returned.
XCleanup ==
    /\ tpc[XTask] = "done"
    /\ IF RemoveArchiveApplies(XTask)
       THEN \/ archive' = [archive EXCEPT ![XTarget] = FALSE]
            \/ UNCHANGED archive
       ELSE UNCHANGED archive
    /\ tpc' = [tpc EXCEPT ![XTask] = "cleaned"]
    /\ UNCHANGED <<workload, svcVars, nCaches, cprov, needCacheArchive, ready, alreadyCached, calls,
                   retries, terr, workerVars, clientVars, url, hostPluginDir,
                   providerDir, platformDir, lockHolder>>

\* ---------------------------------------------------------------- Next
TaskStep(t) ==
    \/ TaskRLock(t)
    \/ WarmUpAcquire(t)
    \/ WarmUpCheck(t)
    \/ WarmUpFetch(t)
    \/ WarmUpDecompress(t)
    \/ TaskFinish(t)

ClientStep(c) ==
    \/ \E p \in Providers : CacheProvider(c, p)
    \/ CacheProviderAppend(c)
    \/ CacheProviderPanic(c)
    \/ \E p \in Providers : GetProviderCache(c, p)
    \/ CallWaitForCacheReady(c)
    \/ WaitForCacheReady(c)

WorkerStep ==
    \/ WorkerStart
    \/ \E c \in Clients : WorkerReceive(c)
    \/ WorkerShutdown
    \/ WorkerWait
    \/ WorkerCleanup
    \/ WorkerReturn

Next ==
    \/ \E c \in Clients : ClientStep(c)
    \/ \E t \in Tasks : TaskStep(t)
    \/ WorkerStep
    \/ CancelRun
    \/ XSpawn
    \/ XCleanup

Spec == Init /\ [][Next]_vars

\* Scheduling: the goroutine of RunCacheWorker and the goroutines of the
\* errgroup keep running; sync.RWMutex hands the lock to the readers that
\* were blocked by a writer when that writer unlocks, so a task waiting at
\* line 229 is not overtaken for ever by later WaitForCacheReady calls; a
\* blocked cacheReadyMu.Lock() is granted once the readers are gone, and a
\* send that is blocked on a channel panics when the channel is closed.
\* Otherwise the callers, and the second process, are free to stop at any
\* point.
Fairness ==
    /\ WF_vars(WorkerStep)
    /\ \A t \in CacheIds : SF_vars(TaskStep(t))
    /\ \A c \in Clients : WF_vars(WaitForCacheReady(c))
    /\ \A c \in Clients : WF_vars(CacheProviderPanic(c))

FairSpec == Spec /\ Fairness

\* ============================================================== claims
Tracked(p) == {i \in DOMAIN providerCaches : cprov[providerCaches[i]] = p}
Dispatched(p) == {id \in CacheIds : cprov[id] = p /\ tpc[id] # "none"}
Constructed(p) == {id \in CacheIds : cprov[id] = p}

\* C1: however the CacheProvider calls interleave, an identity has at most
\* one ProviderCache constructed, tracked and dispatched, and exactly one is
\* tracked once a repeated CacheProvider call for it has returned.
C1_OneCachePerIdentity ==
    \A p \in Providers :
        /\ Cardinality(Tracked(p)) <= 1
        /\ Cardinality(Dispatched(p)) <= 1
        /\ Cardinality(Constructed(p)) <= 1
        /\ p \in repeated => Cardinality(Tracked(p)) = 1

\* C1 witness: CacheProvider was called again for a tracked identity whose
\* warm-up had been dispatched.
C1_Witness ==
    \E p \in repeated : Cardinality(Tracked(p)) = 1 /\ Cardinality(Dispatched(p)) = 1

\* C2: when WaitForCacheReady returns, every unit that was tracked when it
\* was called (its CacheProvider call had returned) has ended its warm-up,
\* ready or failed.
C2_WaitCoversEnqueued ==
    [][\A c \in Clients :
          WaitForCacheReady(c) => \A id \in wseen[c] : tpc[id] = "done"]_vars

\* C3: once the warm-up of P has succeeded and before the shutdown cleanup,
\* GetProviderCache(P) returns the cache; the archive has to be present only
\* when retention is enabled.
C3_GetAfterWarmUp ==
    [][\A c \in Clients, p \in Providers :
          LET cache == Find(providerCaches, p) IN
          ( /\ GetProviderCache(c, p)
            /\ cache # NoCache /\ ready[cache]
            /\ wpc \notin {"cleanup", "returned"}
            /\ svcNeedCacheArchive => ArchiveFileExists(p) )
          => cres'[c] = <<p, cache>>]_vars

\* C4: a cache returned by GetProviderCache(P) is the tracked entry of P,
\* its warm-up has ended without error and its ready flag is set.
C4_ReturnedCacheIsReady ==
    \A c \in Clients :
        (cres[c] # <<>> /\ cres[c][2] # NoCache) =>
            LET id == cres[c][2] IN
            /\ ready[id]
            /\ Tracked(cres[c][1]) # {} /\ cprov[id] = cres[c][1]
            /\ tpc[id] = "done" /\ terr[id] = "none"

\* C4 witness: GetProviderCache has returned a cache.
C4_Witness == \E c \in Clients : cres[c] # <<>> /\ cres[c][2] # NoCache

\* C5 (as claimed): a warm-up that finds hostPluginDir and no platformDir
\* calls os.Symlink and never fetches or decompresses, whatever the
\* retention setting.
C5_SymlinkNeverFetches ==
    \A t \in CacheIds :
        "symlink" \in calls[t] => calls[t] \cap {"fetch", "decompress"} = {}

\* C5 (amended): a warm-up that finds hostPluginDir and no platformDir calls
\* os.Symlink, never creates the directory itself and never decompresses; it
\* fetches only when archive retention is enabled.
C5_SymlinkReuse ==
    \A t \in Tasks :
        /\ "symlink" \in calls[t] =>
               /\ hostPluginDir[ProvOf(t)]
               /\ calls[t] \cap {"mkdir", "decompress"} = {}
               /\ "fetch" \in calls[t] => svcNeedCacheArchive
        /\ ("symlink" \in calls[t] /\ tpc[t] = "done" /\ terr[t] = "none") => ready[t]

\* C5 witness: a warm-up satisfied by the symlink has ended and is ready,
\* platformDir being the symlink.
C5_Witness ==
    \E t \in CacheIds :
        /\ "symlink" \in calls[t] /\ ready[t]
        /\ platformDir[ProvOf(t)] = "symlink"

\* C6: when the fetch of a warm-up failed, platformDir does not exist once
\* the task has ended.
C6_FetchFailureRollsBack ==
    [][\A t \in CacheIds :
          (TaskFinish(t) /\ terr[t] = "fetch") =>
              platformDir'[ProvOf(t)] = "absent"]_vars

\* C7: when decompress failed after writing some files, the task removes
\* platformDir.
C7_DecompressFailureRollsBack ==
    [][\A t \in CacheIds :
          (TaskFinish(t) /\ terr[t] = "decompress"
              /\ platformDir[ProvOf(t)] = "partial") =>
              platformDir'[ProvOf(t)] = "absent"]_vars

\* C8: when a unit is marked ready, in either process, platformDir is the
\* symlink to hostPluginDir or holds the completely unpacked provider.
C8_ReadyImpliesUnpacked ==
    [][\A t \in Tasks :
          (TaskFinish(t) /\ ready'[t]) =>
              platformDir'[ProvOf(t)] \in {"symlink", "full"}]_vars

\* C9: a warm-up whose lock acquisition ran out of retries ends with an
\* error, is not marked ready and leaves platformDir as it was.
C9_LockTimeoutLeavesDirectory ==
    [][\A t \in CacheIds :
          (TaskFinish(t) /\ terr[t] = "lock") =>
              /\ ~ready'[t]
              /\ platformDir' = platformDir]_vars

\* C10: the error RunCacheWorker returns on shutdown contains the error of
\* every warm-up that failed, not only the first one.
C10_AggregatesEveryFailure ==
    (wpc = "returned" /\ chClosed) =>
        \A id \in CacheIds : terr[id] # "none" => <<id, terr[id]>> \in merr

\* C11: a failed warm-up does not stop the dispatch loop: the loop leaves its
\* select for the shutdown branch, closing providerCacheCh, only when the
\* caller's context has been cancelled.
C11_FailureDoesNotStopLoop ==
    [][WorkerShutdown => parentCancel]_vars

\* Warm-up tasks of the service that were started and have not ended.
InFlight == {t \in CacheIds : tpc[t] \notin {"none", "done"}}

\* C12: after the caller's context is cancelled no started warm-up is left
\* unfinished: the process does not die with a warm-up in flight, and when
\* RunCacheWorker has returned from its shutdown every started task has
\* ended, marked ready or failed.
C12_InFlightRunToCompletion ==
    /\ (parentCancel /\ crashed) => InFlight = {}
    /\ (wpc = "returned" /\ chClosed) =>
           /\ InFlight = {}
           /\ \A t \in CacheIds : tpc[t] = "done" => (ready[t] <=> terr[t] = "none")

\* The entries the cleanup loop has called removeArchive for.
RemovalAttempted == {wsnap[i] : i \in 1..(widx - 1)}

\* C13: when RunCacheWorker has returned from its shutdown, removeArchive
\* has been called for every ProviderCache whose warm-up was started.
C13_CleanupCoversEveryUnit ==
    (wpc = "returned" /\ chClosed) =>
        \A t \in CacheIds : tpc[t] # "none" => t \in RemovalAttempted

\* C14: removeArchive runs only when the warm-up work has drained: while
\* the cleanup loop is running, and when it has run, no warm-up task of the
\* service is in flight.
C14_CleanupAfterDrain ==
    wpc = "cleanup" => InFlight = {}

\* C14 witness: the cleanup loop has called removeArchive for a unit whose
\* warm-up had been started.
C14_Witness ==
    /\ wpc = "cleanup"
    /\ \E t \in RemovalAttempted : tpc[t] = "done"

\* C15: without a second process, a unit that was downloaded and unpacked
\* with retention enabled has platformDir unpacked and its archive on disk
\* when it becomes ready; when RunCacheWorker has returned from its
\* shutdown without a removal error, the archive is gone and platformDir is
\* still unpacked.
C15_DownloadThenCleanup ==
    \A t \in CacheIds :
        ( /\ ~workload.second /\ svcNeedCacheArchive
          /\ ready[t] /\ {"mkdir", "fetch", "decompress"} \subseteq calls[t] )
        => /\ platformDir[ProvOf(t)] = "full"
           /\ wpc \notin {"cleanup", "returned"} => archive[ProvOf(t)]
           /\ (wpc = "returned" /\ <<t, "remove">> \notin merr)
                  => ~archive[ProvOf(t)]

\* C16 (as claimed): with retention disabled, a warm-up that downloaded the
\* archive leaves no archive file on disk when it has succeeded.
C16_NoArchiveWithoutRetention ==
    [][\A t \in CacheIds :
          (TaskFinish(t) /\ ready'[t] /\ ~svcNeedCacheArchive
              /\ "fetch" \in calls[t])
          => ~archive'[ProvOf(t)]]_vars

\* C16 (amended): whatever the retention setting, a warm-up that created
\* platformDir itself has set the unit's needCacheArchive flag, and when it
\* succeeds (no second process sharing the directory) the archive it
\* unpacked is on disk, where it stays until a shutdown cleanup.
C16_ArchiveKeptUntilCleanup ==
    [][/\ \A t \in CacheIds :
              (TaskFinish(t) /\ ready'[t] /\ "mkdir" \in calls[t])
              => /\ needCacheArchive[t]
                 /\ ~workload.second => archive'[ProvOf(t)]
       /\ \A p \in Providers :
              (archive[p] /\ ~archive'[p]) => (WorkerCleanup \/ XCleanup)]_vars

\* C16 witness: with retention disabled a unit that was downloaded and
\* unpacked is ready and its archive is on disk.
C16_Witness ==
    \E t \in CacheIds :
        /\ ~svcNeedCacheArchive /\ ready[t]
        /\ {"mkdir", "fetch", "decompress"} \subseteq calls[t]
        /\ archive[ProvOf(t)] /\ wpc = "loop"

\* C17 (as claimed): the cleanup of a service created with retention
\* disabled deletes no archive.
C17_CleanupOnlyIfRetained ==
    [][(WorkerCleanup /\ ~svcNeedCacheArchive) => archive' = archive]_vars

\* C17 (amended): removeArchive deletes the archive of its unit, and nothing
\* else, if and only if the unit's needCacheArchive flag is set and the file
\* exists (os.Remove succeeding); the flag is set when retention was
\* requested or when the warm-up created platformDir itself.
C17_CleanupDeletesFlagged ==
    [][WorkerCleanup =>
          LET t == wsnap[widx]
              p == ProvOf(t)
              flagged == needCacheArchive[t] /\ url[p] /\ archive[p]
          IN /\ archive' # archive =>
                    /\ flagged
                    /\ svcNeedCacheArchive \/ "mkdir" \in calls[t]
                    /\ archive' = [archive EXCEPT ![p] = FALSE]
             /\ (flagged /\ merr' = merr) => ~archive'[p]
             /\ (~svcNeedCacheArchive /\ "mkdir" \notin calls[t])
                    => archive' = archive]_vars

\* C17 witness: with retention disabled and no second process, the cleanup
\* has deleted the archive of a unit that was downloaded.
C17_Witness ==
    /\ ~svcNeedCacheArchive /\ ~workload.second
    /\ \E t \in RemovalAttempted :
           /\ "fetch" \in calls[t] /\ ready[t]
           /\ ~archive[ProvOf(t)] /\ <<t, "remove">> \notin merr

\* C18: within one run no two warm-up tasks of the service are ever started
\* for the same identity, so no two of them work on the same platformDir.
C18_OneWarmUpPerIdentity ==
    \A t1, t2 \in CacheIds :
        (t1 # t2 /\ tpc[t1] # "none" /\ tpc[t2] # "none")
            => ProvOf(t1) # ProvOf(t2)

\* C18 witness: two warm-up tasks of the service are in flight at once (on
\* different identities).
C18_Witness ==
    \E t1, t2 \in CacheIds :
        t1 # t2 /\ tpc[t1] \in InWarmUp /\ tpc[t2] \in InWarmUp

\* C19: a step that creates, removes or writes platformDir or the archive
\* of a provider is taken by a task that holds the provider's lockfile; the
\* dispatch loop, which never holds one, changes neither.
C19_AccessUnderLock ==
    [][/\ \A t \in CacheIds :
              (TaskStep(t) /\ ( \/ platformDir'[ProvOf(t)] # platformDir[ProvOf(t)]
                                \/ archive'[ProvOf(t)] # archive[ProvOf(t)] ))
              => lockHolder[ProvOf(t)] = t
       /\ WorkerCleanup => archive' = archive]_vars

\* The positions of warmUp between the lock acquisition and the unlock.
Protected == {"check", "fetch", "decompress"}

\* C20: the lock-protected sections of two warm-ups of the same provider
\* (one in each process) never overlap, and as long as no warm-up has
\* failed at most one of them has decompressed into platformDir.
C20_CrossProcessExclusion ==
    /\ \A t1, t2 \in Tasks :
           (t1 # t2 /\ tpc[t1] \in Protected /\ tpc[t2] \in Protected)
               => ProvOf(t1) # ProvOf(t2)
    /\ (\A t \in Tasks : terr[t] = "none") =>
           Cardinality({t \in Tasks : ProvOf(t) = XTarget
                                       /\ "decompress" \in calls[t]}) <= 1

\* C20 witness: both processes have warmed the same provider up without an
\* error, one of them by decompressing and the other finding platformDir.
C20_Witness ==
    \E t \in CacheIds :
        /\ ProvOf(t) = XTarget /\ ready[t] /\ ready[XTask]
        /\ "decompress" \in (calls[t] \cup calls[XTask])
        /\ "decompress" \notin (calls[t] \cap calls[XTask])

\* The errors of warmUp's exit paths after the lock acquisition.
LockedExits == {"none", "symlink", "mkdir", "nourl", "fetch", "decompress"}

\* C21: a task holds the lockfile of its provider exactly from the
\* acquisition to the return of warmUp: every return from the protected
\* section releases the lock the task held, once; a warm-up that returns
\* before or at a failed acquisition holds none and releases none; no task
\* holds a lock after warmUp has returned.
C21_LockReleasedOnEveryExit ==
    [][\A t \in {u \in Tasks : ProvOf(u) \in Providers} :
          LET p == ProvOf(t) IN
          /\ lockHolder[p] = t => tpc[t] \in Protected
          /\ (tpc[t] \in Protected /\ tpc'[t] = "returned") =>
                 /\ terr'[t] \in LockedExits
                 /\ lockHolder[p] = t /\ lockHolder'[p] = NoCache
          /\ (tpc[t] \in {"spawned", "acquire"} /\ tpc'[t] = "returned") =>
                 /\ terr'[t] \in {"mkdirall", "lock"}
                 /\ lockHolder[p] # t /\ lockHolder' = lockHolder
          /\ (lockHolder[p] = t /\ lockHolder'[p] # t) =>
                 (tpc'[t] = "returned" \/ crashed')]_vars

\* C21 witness: a warm-up has left its protected section with an error and
\* its lock is released.
C21_Witness ==
    \E t \in CacheIds :
        /\ tpc[t] = "returned" /\ terr[t] \in LockedExits \ {"none"}
        /\ lockHolder[ProvOf(t)] = NoCache

\* C22: GetProviderCache never has to wait: a caller that is free to call
\* it can complete the call in the current state, whatever the dispatch
\* loop and the other callers are doing.
C22_GetNeverBlocks ==
    \A c \in Clients, p \in Providers :
        ( /\ Alive /\ cpc[c] = "idle"
          /\ workload.role[c] = "proxy" /\ p \in workload.requested )
        => ENABLED GetProviderCache(c, p)

\* C23: CacheProvider for an identity that is already tracked does not wait
\* for the dispatch loop, and changes neither the collection, the queue nor
\* any entry.
C23_RepeatedCallReturnsAtOnce ==
    /\ \A c \in Clients, p \in Providers :
           ( /\ Alive /\ cpc[c] = "idle"
             /\ workload.role[c] # "off" /\ p \in workload.requested
             /\ Find(providerCaches, p) # NoCache )
           => ENABLED CacheProvider(c, p)
    /\ \A p \in repeated : Cardinality(Constructed(p)) = 1

C25_ReadyIsMonotonic ==
    [][\A t \in Tasks :
          /\ ready[t] => ready'[t]
          /\ (~ready[t] /\ ready'[t]) =>
                 (tpc[t] = "returned" /\ terr[t] = "none")]_vars

\* C25 witness: a unit that became ready is still ready after the shutdown
\* of the loop.
C25_Witness ==
    wpc = "returned" /\ \E t \in CacheIds : ready[t]

\* C26: the tracked collection only grows at its end: each step keeps the
\* entries it had, in their order.
C26_CollectionAppendOnly ==
    [][/\ Len(providerCaches') >= Len(providerCaches)
       /\ SubSeq(providerCaches', 1, Len(providerCaches)) = providerCaches]_vars

\* C26 witness: two entries are tracked and the shutdown cleanup has run.
C26_Witness ==
    Len(providerCaches) = 2 /\ wpc = "returned" /\ chClosed

\* C27: a warm-up that needs the archive, finds none and has no DownloadURL
\* fails without calling fetch or decompress, the unit is not marked ready,
\* and the platformDir (directory or symlink) it created is gone when the
\* task has ended.
C27_MissingUrlFailsFast ==
    [][\A t \in CacheIds :
          /\ (tpc[t] = "fetch" /\ FetchRequired(t) /\ ~url[ProvOf(t)]
                  /\ tpc'[t] # "fetch")
                 => (terr'[t] = "nourl" /\ calls'[t] = calls[t])
          /\ (TaskFinish(t) /\ terr[t] = "nourl") =>
                 /\ ~ready'[t]
                 /\ calls[t] \cap {"fetch", "decompress"} = {}
                 /\ calls[t] \cap {"mkdir", "symlink"} # {}
                        => platformDir'[ProvOf(t)] = "absent"]_vars

\* C27 witness: a warm-up that had created platformDir has ended with the
\* missing URL error and platformDir is gone.
C27_Witness ==
    \E t \in CacheIds :
        /\ tpc[t] = "done" /\ terr[t] = "nourl" /\ "mkdir" \in calls[t]
        /\ platformDir[ProvOf(t)] = "absent"

\* The warm-ups that found platformDir existing (line 109).
FoundPlatformDir == {t \in CacheIds : alreadyCached[t] /\ "symlink" \notin calls[t]}

\* C28 (as claimed): a warm-up that finds platformDir existing calls neither
\* fetch nor decompress and does not fail for a missing URL, whatever the
\* retention setting.
C28_ExistingDirSkipsFetch ==
    \A t \in FoundPlatformDir :
        calls[t] \cap {"fetch", "decompress"} = {} /\ terr[t] # "nourl"

\* C28 (amended): a warm-up that finds platformDir existing never creates
\* or decompresses; it fetches, or fails for a missing URL, only when
\* retention is enabled, and with retention disabled it ends ready.
C28_ExistingDirSkipsDecompress ==
    \A t \in FoundPlatformDir :
        /\ calls[t] \cap {"mkdir", "decompress"} = {}
        /\ ("fetch" \in calls[t] \/ terr[t] = "nourl") => svcNeedCacheArchive
        /\ (~svcNeedCacheArchive /\ tpc[t] = "done") => ready[t]

\* C28 witness: with retention enabled a warm-up that found platformDir
\* existing has fetched the archive and is ready.
C28_Witness ==
    \E t \in FoundPlatformDir : "fetch" \in calls[t] /\ ready[t]

\* C29: with an unspecified base directory RunCacheWorker returns the
\* configuration error at once: it never enters its loop, receives no unit,
\* starts no task and leaves the directory as it was (empty).
C29_NoBaseDirReturnsAtOnce ==
    ~baseCacheDir =>
        /\ wpc \in {"init", "returned"}
        /\ wpc = "returned" => merr = {<<NoCache, "nodir">>}
        /\ ~chClosed
        /\ \A t \in CacheIds : tpc[t] = "none"
        /\ \A p \in Providers :
               ~providerDir[p] /\ platformDir[p] = "absent" /\ ~archive[p]

\* C29 witness: RunCacheWorker has returned for an unspecified base
\* directory while a CacheProvider call is waiting in its send.
C29_Witness ==
    ~baseCacheDir /\ wpc = "returned" /\ \E c \in Clients : cpc[c] = "cp_send"

\* C30: every unit the dispatch loop has received is a member of the
\* tracked collection.
C30_TrackedBeforeDispatch ==
    \A t \in CacheIds :
        tpc[t] # "none" => \E i \in DOMAIN providerCaches : providerCaches[i] = t

\* C31: a CacheProvider call never sends on providerCacheCh once the
\* dispatch loop has closed it: no call is in its send on the closed
\* channel and the process never dies of such a send.
C31_NoSendAfterClose ==
    /\ ~crashed
    /\ \A c \in Clients : ~(cpc[c] = "cp_send" /\ chClosed)

\* C32: once the warm-up of a unit has failed, the unit stays failed and
\* not ready, its task does not run again, no other ProviderCache is made
\* for its identity, and GetProviderCache reports the identity absent.
C32_FailedUnitNeverRetried ==
    [][\A t \in CacheIds :
          terr[t] # "none" =>
              /\ terr'[t] = terr[t] /\ ~ready'[t]
              /\ tpc'[t] \in {"returned", "done"}
              /\ \A id \in CacheIds \ {t} : cprov'[id] # cprov[t]
              /\ \A c \in Clients :
                     GetProviderCache(c, cprov[t]) => cres'[c] = <<cprov[t], NoCache>>]_vars

\* C32 witness: after a failed warm-up whose archive is on disk,
\* CacheProvider was called again for the identity and GetProviderCache
\* reported it absent.
C32_Witness ==
    \E t \in CacheIds, c \in Clients :
        /\ tpc[t] = "done" /\ terr[t] # "none" /\ ArchiveFileExists(cprov[t])
        /\ cprov[t] \in repeated
        /\ cres[c] = <<cprov[t], NoCache>>

\* C33: WaitForCacheReady returns only when no task holds its shared claim
\* on cacheReadyMu, and a task marks its unit ready or rolls platformDir
\* back only while it holds its claim.
C33_ZeroInFlightBarrier ==
    [][/\ \A c \in Clients :
              (cpc[c] = "w_lock" /\ cpc'[c] = "idle") => ReadyReaders = {}
       /\ \A t \in CacheIds :
              (TaskStep(t) /\ ( \/ ready'[t] # ready[t]
                                \/ terr'[t] # terr[t]
                                \/ calls'[t] # calls[t]
                                \/ diskVars' # diskVars ))
              => (t \in ReadyReaders \/ tpc'[t] \in InWarmUp)]_vars

\* C33 witness: a WaitForCacheReady call is waiting while a warm-up holds
\* its shared claim.
C33_Witness ==
    \E c \in Clients : cpc[c] = "w_lock" /\ ReadyReaders # {}

\* C34: before the lock is held a warm-up touches nothing but providerDir;
\* platformDir is inspected and changed by warmUp only under the lock; and
\* a free lock is acquired whether or not platformDir exists.
C34_OnlyProviderDirBeforeLock ==
    [][\A t \in CacheIds :
          /\ (TaskRLock(t) \/ WarmUpAcquire(t)) =>
                 UNCHANGED <<platformDir, archive, hostPluginDir, alreadyCached, calls>>
          /\ (WarmUpCheck(t) \/ WarmUpFetch(t) \/ WarmUpDecompress(t)) =>
                 lockHolder[ProvOf(t)] = t
          /\ (WarmUpAcquire(t) /\ lockHolder[ProvOf(t)] = NoCache) =>
                 lockHolder'[ProvOf(t)] = t]_vars

\* C34 witness: a warm-up has acquired the lock of a provider whose
\* platformDir exists.
C34_Witness ==
    \E t \in CacheIds :
        /\ tpc[t] = "check" /\ lockHolder[ProvOf(t)] = t
        /\ platformDir[ProvOf(t)] = "full"

\* C35: under fair scheduling, once the run's context is cancelled while
\* RunCacheWorker is in its loop, RunCacheWorker returns (unless the process
\* dies of a CacheProvider send on the closed channel).
C35_WorkerReturnsAfterCancel ==
    (parentCancel /\ wpc = "loop") ~> (wpc = "returned" \/ crashed)

\* C35 witness: RunCacheWorker has returned after a cancellation, a warm-up
\* having run while a WaitForCacheReady call was made.
C35_Witness ==
    /\ parentCancel /\ wpc = "returned" /\ chClosed /\ ~crashed
    /\ \E t \in CacheIds : tpc[t] = "done"

\* No WaitForCacheReady call is pending, no started warm-up is unfinished
\* and, while the loop is running, no CacheProvider call is in its send.
Quiet ==
    /\ \A c \in Clients : cpc[c] # "w_lock"
    /\ InFlight = {}
    /\ wpc = "loop" => \A c \in Clients : cpc[c] # "cp_send"

\* C36: under fair scheduling the service always comes back to a state
\* where nothing is pending, so every WaitForCacheReady call returns, every
\* started warm-up ends even when a WaitForCacheReady was pending, and
\* every send is consumed while the loop is running (unless the process
\* dies).
C36_WaitEventuallyReturns == []<>(crashed \/ Quiet)

\* C36 witness: a started warm-up is kept out of cacheReadyMu by a pending
\* WaitForCacheReady.
C36_Witness ==
    \E c \in Clients, t \in CacheIds :
        cpc[c] = "w_lock" /\ tpc[t] = "spawned" /\ ~crashed

\* C37: no conflicting accesses are possible at once: the shutdown loop
\* does not read the collection while a CacheProvider call holds cacheMu
\* for its append, and a task does not write ready while a GetProviderCache
\* call may read it.
C37_NoUnsynchronisedAccess ==
    /\ ~(ENABLED WorkerWait /\ \E c \in Clients : cpc[c] = "cp_append")
    /\ \A t \in CacheIds, c \in Clients :
           ~( /\ tpc[t] = "returned" /\ terr[t] = "none"
              /\ Find(providerCaches, cprov[t]) = t
              /\ ENABLED GetProviderCache(c, cprov[t]) )

====
